---- MODULE Spec2Model ----
(***************************************************************************)
(* tcolr: block averaging of an RGB image and run-length colour encoding   *)
(* of every grid row (src/src/main.rs, main and its helpers).              *)
(*                                                                         *)
(* Integer widths.  The program mixes usize/u64 (64 bit) and u32 values.   *)
(* The model keeps the two widths and their ratio but scales them down:    *)
(* a u32 holds values modulo U32Mod and a u64/usize values below U64Mod =  *)
(* U32Mod * U32Mod.  Image dimensions are u32 values, chunk sizes are      *)
(* usize values.  Colour channels keep their real 8 bit range.             *)
(***************************************************************************)
EXTENDS Integers, Sequences, FiniteSets

\* ---------------------------------------------------------------- bounds
MaxPixels == 6
ParMaxPixels == 4

\* ------------------------------------------------------- integer widths
U32Mod == 8
U64Mod == 64

\* ------------------------------------------------------------- inputs
\* 8 bit RGB pixels the decoded image is drawn from
Palette == { <<0, 0, 0>>, <<255, 255, 0>>, <<255, 255, 255>> }

\* values of --x-chunks / --y-chunks (usize): zero, small ones, and the
\* first two values that no longer fit a u32
Chunks == {0, 1, 2, 3, U32Mod, U32Mod + 1}

ParChunks == {1, 2}

VARIABLES
    width, height, img,      \* the decoded image buffer
    chunks_x, chunks_y,      \* args.x_chunks, args.y_chunks
    n_x, n_y, n,             \* main: blocks per row, rows of blocks, pixels per block
    rgbs,                    \* main: the vector of accumulators / mean colours
    pc,                      \* position in main
    panic,                   \* "none" or the reason the process panicked
    y_chunk,                 \* main: loop variable of both y_chunk loops
    y, stop,                 \* main: pixel row loop start..stop
    cw32, sn, idx, x,        \* sum_chunks_inplace: chunk_width, n, idx, x
    di,                      \* main: position of `for rgb in slice` (division)
    ei,                      \* main: position of `for rgb in slice` (encoding)
    rgb_count,               \* main: the pending run
    out,                     \* what was printed: runs and newlines, in order
    hits,                    \* history: per pixel, the accumulators it was added to
    divs                     \* history: per accumulator, how often it was divided

vars == << width, height, img, chunks_x, chunks_y, n_x, n_y, n, rgbs, pc, panic,
           y_chunk, y, stop, cw32, sn, idx, x, di, ei, rgb_count, out, hits, divs >>

\* -------------------------------------------------------------- RGBSum
Zero == [r |-> 0, g |-> 0, b |-> 0]

Aggregate(acc, p) == [r |-> acc.r + p[1], g |-> acc.g + p[2], b |-> acc.b + p[3]]

DivRounding(acc, d) ==
    [r |-> (acc.r + d \div 2) \div d,
     g |-> (acc.g + d \div 2) \div d,
     b |-> (acc.b + d \div 2) \div d]

Div(acc, d) == [r |-> acc.r \div d, g |-> acc.g \div d, b |-> acc.b \div d]

\* ------------------------------------------------------------ RgbCount
IsSameRgbFirstChannel(rc, other) == rc.rgb_sum.r = other.r

IsSameRgb(rc, other) ==
    rc.rgb_sum.r = other.r /\ rc.rgb_sum.g = other.g /\ rc.rgb_sum.b = other.b

Incr(rc) == [rc EXCEPT !.count = rc.count + 1]

IsValid(rc) == rc.rgb_sum.r < 256 /\ rc.rgb_sum.g < 256 /\ rc.rgb_sum.b < 256

SetRgb(rc, rgb) == [rgb_sum |-> rgb, count |-> 1]

Invalid == [rgb_sum |-> [r |-> 256, g |-> 0, b |-> 0], count |-> 1]

\* ------------------------------------------------------------- printing
AsU8(v) == v % 256

\* print!("{}", RGB(r as u8, g as u8, b as u8).paint("$".repeat(count)))
PaintRun(rc, row) ==
    [kind |-> "run", row |-> row,
     color |-> << AsU8(rc.rgb_sum.r), AsU8(rc.rgb_sum.g), AsU8(rc.rgb_sum.b) >>,
     count |-> rc.count]

\* print!("\n")
Newline(row) == [kind |-> "nl", row |-> row, color |-> <<0, 0, 0>>, count |-> 0]

\* ---------------------------------------------------------------- Init
Images(maxPixels) ==
    { s \in (1 .. maxPixels) \X (1 .. maxPixels) : s[1] * s[2] <= maxPixels }

InitLocals ==
    /\ n_x = 0 /\ n_y = 0 /\ n = 0
    /\ rgbs = << >>
    /\ pc = "start"
    /\ panic = "none"
    /\ y_chunk = 0 /\ y = 0 /\ stop = 0
    /\ cw32 = 0 /\ sn = 0 /\ idx = 0 /\ x = 0
    /\ di = 0 /\ ei = 0
    /\ rgb_count = Invalid
    /\ out = << >>
    /\ hits = [p \in DOMAIN img |-> << >>]
    /\ divs = << >>

Init ==
    /\ \E s \in Images(MaxPixels) :
          /\ width = s[1]
          /\ height = s[2]
          /\ img \in [(0 .. s[1] - 1) \X (0 .. s[2] - 1) -> Palette]
    /\ chunks_x \in Chunks
    /\ chunks_y \in Chunks
    /\ InitLocals

\* ---------------------------------------------------------------- main
\* line 315 (and 333): cell i of the slice rgbs[yc * n_x .. yc * n_x + n_x]
SliceIndexNoOffset(yc, i) == i

SliceIndex(yc, i) == yc * n_x + i

\* lines 309-310: the pixel rows start .. stop of block row yc
RowStopFirstRowOnly(yc, ch) == yc * ch + 1

RowStop(yc, ch) == yc * ch + ch

Panic(reason) ==
    /\ pc' = "panic"
    /\ panic' = reason

\* lines 299-306: block counts, pixels per block, the zeroed accumulators
Setup ==
    /\ pc = "start"
    /\ IF chunks_x = 0 \/ chunks_y = 0
       THEN /\ Panic("divide_by_zero")
            /\ UNCHANGED << n_x, n_y, n, rgbs, divs >>
       ELSE /\ n_x' = width \div chunks_x
            /\ n_y' = height \div chunks_y
            /\ \/ /\ chunks_x * chunks_y >= U64Mod      \* overflow checks on
                  /\ Panic("multiply_overflow")
                  /\ UNCHANGED << n, rgbs, divs >>
               \/ /\ n' = (chunks_x * chunks_y) % U64Mod   \* wrapping when too large
                  /\ rgbs' = [c \in 0 .. (n_x' * n_y' - 1) |-> Zero]
                  /\ divs' = [c \in 0 .. (n_x' * n_y' - 1) |-> 0]
                  /\ pc' = "agg_head"
                  /\ panic' = panic
    /\ UNCHANGED << width, height, img, chunks_x, chunks_y, y_chunk, y, stop,
                    cw32, sn, idx, x, di, ei, rgb_count, out, hits >>

\* lines 308-315: next row of blocks, or on to the encoding
AggRowHead ==
    /\ pc = "agg_head"
    /\ IF y_chunk < n_y
       THEN /\ y' = y_chunk * chunks_y
            /\ stop' = RowStop(y_chunk, chunks_y)
            /\ pc' = "sum_call"
            /\ UNCHANGED y_chunk
       ELSE /\ y_chunk' = 0
            /\ pc' = "enc_head"
            /\ UNCHANGED << y, stop >>
    /\ UNCHANGED << width, height, img, chunks_x, chunks_y, n_x, n_y, n, rgbs,
                    panic, cw32, sn, idx, x, di, ei, rgb_count, out, hits, divs >>

\* lines 316, 321, 205: next pixel row of the block row and the call of
\* sum_chunks_inplace(&buf, chunks_x as u32, y as u32, slice), or on to the division
SumCall ==
    /\ pc = "sum_call"
    /\ IF y < stop
       THEN /\ cw32' = chunks_x % U32Mod
            /\ IF cw32' = 0
               THEN /\ Panic("divide_by_zero")
                    /\ UNCHANGED << sn, idx, x, y >>
               ELSE /\ sn' = width \div cw32'
                    /\ idx' = 0
                    /\ x' = 0
                    /\ panic' = panic
                    /\ IF sn' = 0
                       THEN pc' = "sum_call" /\ y' = y + 1
                       ELSE pc' = "sum_pixel" /\ y' = y
            /\ di' = di
       ELSE /\ di' = 0
            /\ pc' = "div"
            /\ UNCHANGED << cw32, sn, idx, x, y, panic >>
    /\ UNCHANGED << width, height, img, chunks_x, chunks_y, n_x, n_y, n, rgbs,
                    y_chunk, stop, ei, rgb_count, out, hits, divs >>

\* lines 206-212: one pixel of sum_chunks_inplace, target = the block row's slice
SumPixel ==
    /\ pc = "sum_pixel"
    /\ IF x >= width \/ y >= height
       THEN /\ Panic("pixel_out_of_bounds")
            /\ UNCHANGED << rgbs, hits, idx, x, y >>
       ELSE IF idx >= n_x
       THEN /\ Panic("index_out_of_bounds")
            /\ UNCHANGED << rgbs, hits, idx, x, y >>
       ELSE /\ rgbs' = [rgbs EXCEPT ![SliceIndex(y_chunk, idx)] = Aggregate(@, img[<<x, y>>])]
            /\ hits' = [hits EXCEPT ![<<x, y>>] = Append(@, SliceIndex(y_chunk, idx))]
            /\ panic' = panic
            /\ x' = x + 1
            /\ idx' = IF x + 1 = idx * cw32 + cw32 THEN idx + 1 ELSE idx
            /\ IF idx' = sn
               THEN pc' = "sum_call" /\ y' = y + 1
               ELSE pc' = "sum_pixel" /\ y' = y
    /\ UNCHANGED << width, height, img, chunks_x, chunks_y, n_x, n_y, n,
                    y_chunk, stop, cw32, sn, di, ei, rgb_count, out, divs >>

\* lines 323-325: divide one accumulator of the slice, or on to the next block row
DivCell ==
    /\ pc = "div"
    /\ IF di < n_x
       THEN IF n = 0
            THEN /\ Panic("divide_by_zero")
                 /\ UNCHANGED << rgbs, divs, di, y_chunk >>
            ELSE /\ rgbs' = [rgbs EXCEPT ![SliceIndex(y_chunk, di)] = Div(@, n)]
                 /\ divs' = [divs EXCEPT ![SliceIndex(y_chunk, di)] = @ + 1]
                 /\ di' = di + 1
                 /\ UNCHANGED << pc, panic, y_chunk >>
       ELSE /\ y_chunk' = y_chunk + 1
            /\ pc' = "agg_head"
            /\ UNCHANGED << rgbs, divs, di, panic >>
    /\ UNCHANGED << width, height, img, chunks_x, chunks_y, n_x, n_y, n,
                    y, stop, cw32, sn, idx, x, ei, rgb_count, out, hits >>

\* lines 331-333: next grid row to encode, or the end of main
EncRowHead ==
    /\ pc = "enc_head"
    /\ IF y_chunk < n_y
       THEN /\ rgb_count' = Invalid
            /\ ei' = 0
            /\ pc' = "enc_cell"
       ELSE /\ pc' = "done"
            /\ UNCHANGED << rgb_count, ei >>
    /\ UNCHANGED << width, height, img, chunks_x, chunks_y, n_x, n_y, n, rgbs,
                    panic, y_chunk, y, stop, cw32, sn, idx, x, di, out, hits, divs >>

\* lines 336-349: one cell of the grid row
EncCell ==
    /\ pc = "enc_cell"
    /\ ei < n_x
    /\ LET rgb == rgbs[SliceIndex(y_chunk, ei)] IN
         IF IsValid(rgb_count)
         THEN IF IsSameRgb(rgb_count, rgb)
              THEN /\ rgb_count' = Incr(rgb_count)
                   /\ out' = out
              ELSE /\ out' = Append(out, PaintRun(rgb_count, y_chunk))
                   /\ rgb_count' = SetRgb(rgb_count, rgb)
         ELSE /\ rgb_count' = SetRgb(rgb_count, rgb)
              /\ out' = out
    /\ ei' = ei + 1
    /\ UNCHANGED << width, height, img, chunks_x, chunks_y, n_x, n_y, n, rgbs, pc,
                    panic, y_chunk, y, stop, cw32, sn, idx, x, di, hits, divs >>

\* what lines 350-352 print: the pending run, then the newline
RowEndSwapped(rc, row) == << Newline(row), PaintRun(rc, row) >>

RowEnd(rc, row) == << PaintRun(rc, row), Newline(row) >>

\* lines 350-352: the row's cells are exhausted
EncRowEnd ==
    /\ pc = "enc_cell"
    /\ ei = n_x
    /\ out' = out \o RowEnd(rgb_count, y_chunk)
    /\ y_chunk' = y_chunk + 1
    /\ pc' = "enc_head"
    /\ UNCHANGED << width, height, img, chunks_x, chunks_y, n_x, n_y, n, rgbs,
                    panic, y, stop, cw32, sn, idx, x, di, ei, rgb_count, hits, divs >>

Next ==
    \/ Setup
    \/ AggRowHead
    \/ SumCall
    \/ SumPixel
    \/ DivCell
    \/ EncRowHead
    \/ EncCell
    \/ EncRowEnd

Spec == Init /\ [][Next]_vars

\* ----------------------------------------- the aggregation, reordered
\* The same additions (sum_chunks_inplace, line 211) and divisions (line 324)
\* as in main, taken in any order across grid rows and columns: an addition
\* for any pixel of a full block not yet added, a division for any block whose
\* additions are complete.  The encoding follows when all are done.

InitPar ==
    /\ \E s \in Images(ParMaxPixels) :
          /\ width = s[1]
          /\ height = s[2]
          /\ img \in [(0 .. s[1] - 1) \X (0 .. s[2] - 1) -> Palette]
    /\ chunks_x \in ParChunks
    /\ chunks_y \in ParChunks
    /\ InitLocals

\* the pixels of the block of cell c (lines 207-209 and 309-310)
PixelsOf(c) ==
    { p \in DOMAIN img : /\ p[1] \div chunks_x = c % n_x
                         /\ p[2] \div chunks_y = c \div n_x }

\* lines 316-323: the division comes after the loop over the block's pixel rows
BlockDoneAnyTime(c) == TRUE

BlockDone(c) == \A p \in PixelsOf(c) : hits[p] # << >>

ParAdd ==
    /\ pc = "agg_head"
    /\ \E c \in DOMAIN rgbs : \E p \in PixelsOf(c) :
          /\ hits[p] = << >>
          /\ rgbs' = [rgbs EXCEPT ![c] = Aggregate(@, img[p])]
          /\ hits' = [hits EXCEPT ![p] = Append(@, c)]
    /\ UNCHANGED << width, height, img, chunks_x, chunks_y, n_x, n_y, n, pc, panic,
                    y_chunk, y, stop, cw32, sn, idx, x, di, ei, rgb_count, out, divs >>

ParDiv ==
    /\ pc = "agg_head"
    /\ \E c \in DOMAIN rgbs :
          /\ divs[c] = 0
          /\ BlockDone(c)
          /\ rgbs' = [rgbs EXCEPT ![c] = Div(@, n)]
          /\ divs' = [divs EXCEPT ![c] = @ + 1]
    /\ UNCHANGED << width, height, img, chunks_x, chunks_y, n_x, n_y, n, pc, panic,
                    y_chunk, y, stop, cw32, sn, idx, x, di, ei, rgb_count, out, hits >>

\* line 327: the aggregation loop is over, the encoding starts
ParJoin ==
    /\ pc = "agg_head"
    /\ \A c \in DOMAIN rgbs : divs[c] = 1 /\ \A p \in PixelsOf(c) : hits[p] # << >>
    /\ pc' = "enc_head"
    /\ y_chunk' = 0
    /\ UNCHANGED << width, height, img, chunks_x, chunks_y, n_x, n_y, n, rgbs, panic,
                    y, stop, cw32, sn, idx, x, di, ei, rgb_count, out, hits, divs >>

NextPar ==
    \/ Setup
    \/ ParAdd
    \/ ParDiv
    \/ ParJoin
    \/ EncRowHead
    \/ EncCell
    \/ EncRowEnd

SpecPar == InitPar /\ [][NextPar]_vars

\* --------------------------------- main as a function of image and args
\* the pixels of the block of cell c in the order main visits them
SeqOrder(c) ==
    [k \in 1 .. chunks_x * chunks_y |->
        << (c % n_x) * chunks_x + ((k - 1) % chunks_x),
           (c \div n_x) * chunks_y + ((k - 1) \div chunks_x) >>]

RECURSIVE AggSeq(_, _)
AggSeq(acc, ps) ==
    IF ps = << >> THEN acc ELSE AggSeq(Aggregate(acc, img[Head(ps)]), Tail(ps))

\* lines 306-326
SeqGrid == [c \in 0 .. (n_x * n_y - 1) |-> Div(AggSeq(Zero, SeqOrder(c)), n)]

\* lines 336-352 for grid row `row` with the cells still to visit
RECURSIVE EncodeRow(_, _, _)
EncodeRow(rc, cells, row) ==
    IF cells = << >> THEN RowEnd(rc, row)
    ELSE IF IsValid(rc)
         THEN IF IsSameRgb(rc, Head(cells))
              THEN EncodeRow(Incr(rc), Tail(cells), row)
              ELSE << PaintRun(rc, row) >>
                       \o EncodeRow(SetRgb(rc, Head(cells)), Tail(cells), row)
         ELSE EncodeRow(SetRgb(rc, Head(cells)), Tail(cells), row)

\* lines 331-354
RECURSIVE EncodeRows(_, _)
EncodeRows(grid, row) ==
    IF row >= n_y THEN << >>
    ELSE EncodeRow(Invalid, [k \in 1 .. n_x |-> grid[SliceIndex(row, k - 1)]], row)
             \o EncodeRows(grid, row + 1)

SeqOut == EncodeRows(SeqGrid, 0)

\* ------------------------------------------------- properties: helpers
Color(acc) == << acc.r, acc.g, acc.b >>

Positive == chunks_x > 0 /\ chunks_y > 0

Aggregated == pc \in {"enc_head", "enc_cell", "done"}

\* the run events printed for grid row i, in emission order
RunsOfRow(i) == SelectSeq(out, LAMBDA e : e.kind = "run" /\ e.row = i)

RowClosed(i) == \E k \in 1 .. Len(out) : out[k] = Newline(i)

RECURSIVE Expand(_)
Expand(runs) ==
    IF runs = << >> THEN << >>
    ELSE [k \in 1 .. Head(runs).count |-> Head(runs).color] \o Expand(Tail(runs))

\* the mean colours of grid row i, left to right
RowCells(i) == [k \in 1 .. n_x |-> Color(rgbs[i * n_x + (k - 1)])]

RECURSIVE CountSum(_)
CountSum(runs) == IF runs = << >> THEN 0 ELSE Head(runs).count + CountSum(Tail(runs))

\* C1: for every grid row whose output is complete, expanding the row's runs in
\* emission order (count copies of each run's colour) gives exactly the row's
\* mean colours: the same length and the same colour at every position.
C1_DecodeIsRow ==
    Positive =>
        \A i \in 0 .. n_y - 1 :
            RowClosed(i) => /\ CountSum(RunsOfRow(i)) = n_x
                            /\ Expand(RunsOfRow(i)) = RowCells(i)

\* C2: in the runs printed for one grid row every run has count >= 1, no two
\* consecutive runs have the same colour, and the cells a run covers all have
\* the run's colour in all three channels.
C2_RunsMaximal ==
    /\ \A k \in 1 .. Len(out) :
          out[k].kind = "run" =>
             /\ out[k].count >= 1
             /\ (k > 1 /\ out[k - 1].kind = "run" /\ out[k - 1].row = out[k].row)
                    => out[k - 1].color # out[k].color
    /\ \A i \in 0 .. n_y - 1 :
          LET runs == RunsOfRow(i) IN
          \A j \in 1 .. Len(runs) :
             LET first == CountSum(SubSeq(runs, 1, j - 1)) IN
             \A k \in 1 .. runs[j].count :
                first + k <= n_x => RowCells(i)[first + k] = runs[j].color

C2_Witness ==
    /\ pc = "done"
    /\ \E k \in 1 .. Len(out) - 1 :
          /\ out[k].kind = "run" /\ out[k].count >= 2
          /\ out[k + 1].kind = "run"
          /\ out[k].color[1] = out[k + 1].color[1]

\* the pixels of block (bx, by)
BlockPixels(bx, by) ==
    { p \in DOMAIN img : /\ p[1] \div chunks_x = bx
                         /\ p[2] \div chunks_y = by }

RECURSIVE ChannelSum(_, _)
ChannelSum(S, ch) ==
    IF S = {} THEN 0
    ELSE LET p == CHOOSE q \in S : TRUE IN img[p][ch] + ChannelSum(S \ {p}, ch)

\* C3: after aggregation every channel of the cell of block (x_chunk, y_chunk),
\* x_chunk < floor(width / chunk_width), y_chunk < floor(height / chunk_height),
\* is floor(S / (chunk_width * chunk_height)) with S the channel's sum over the
\* chunk_width * chunk_height pixels of the block, and lies in 0 .. 255.
C3_MeanIsFloor ==
    (Positive /\ Aggregated) =>
        \A bx \in 0 .. (width \div chunks_x) - 1, by \in 0 .. (height \div chunks_y) - 1 :
            LET cell == rgbs[by * (width \div chunks_x) + bx]
                S    == BlockPixels(bx, by)
            IN  /\ Cardinality(S) = chunks_x * chunks_y
                /\ cell.r = ChannelSum(S, 1) \div (chunks_x * chunks_y)
                /\ cell.g = ChannelSum(S, 2) \div (chunks_x * chunks_y)
                /\ cell.b = ChannelSum(S, 3) \div (chunks_x * chunks_y)
                /\ {cell.r, cell.g, cell.b} \subseteq 0 .. 255

C3_Witness ==
    /\ pc = "done"
    /\ chunks_x >= 2 /\ chunks_y >= 2
    /\ \E c \in DOMAIN rgbs : rgbs[c].r \notin {0, 255} /\ rgbs[c].b # rgbs[c].r

\* C4: the grid has floor(width / chunk_width) columns and
\* floor(height / chunk_height) rows; a pixel is only ever added to the
\* accumulator of block (floor(x / chunk_width), floor(y / chunk_height)), at
\* most once; after aggregation every pixel of a full block was added exactly
\* once and no pixel of the residual right columns or bottom rows was added.
C4_Tiling ==
    (Positive /\ pc \notin {"start", "panic"}) =>
        LET bcx == width \div chunks_x
            bcy == height \div chunks_y
        IN  /\ n_x = bcx /\ n_y = bcy
            /\ DOMAIN rgbs = 0 .. (bcx * bcy - 1)
            /\ \A p \in DOMAIN img :
                  LET inside == p[1] < bcx * chunks_x /\ p[2] < bcy * chunks_y
                      own    == (p[2] \div chunks_y) * bcx + (p[1] \div chunks_x)
                  IN  /\ hits[p] \in {<< >>, << own >>}
                      /\ ~inside => hits[p] = << >>
                      /\ (Aggregated /\ inside) => hits[p] = << own >>

C4_Witness ==
    /\ pc = "done"
    /\ n_x >= 1 /\ n_y >= 2
    /\ width % chunks_x # 0
    /\ \E p \in DOMAIN img : hits[p] = << >>
    /\ \E p \in DOMAIN img : hits[p] # << >> /\ hits[p][1] >= n_x

\* C5: a chunk size of zero is rejected with an InvalidChunkDimension error
\* before anything else runs, and no division by zero is ever evaluated.
C5_ZeroChunkRejected ==
    /\ panic # "divide_by_zero"
    /\ ((chunks_x = 0 \/ chunks_y = 0) /\ pc # "start") => pc = "invalid_chunk_dimension"

\* C6: when the image is smaller than one chunk in either dimension (chunk
\* sizes positive) nothing is printed: no run and no end of row.
C6_EmptyGridNoOutput ==
    (Positive /\ (width < chunks_x \/ height < chunks_y)) => out = << >>

\* C7: the output is, for grid rows 0 .. block_count_y - 1 in increasing order,
\* the row's runs followed by exactly one end of row: rows never interleave,
\* nothing of a row follows its end of row, and at the end there is exactly one
\* end of row per grid row.
C7_RowsInOrder ==
    /\ \A j \in 1 .. Len(out), k \in 1 .. Len(out) :
          j < k => /\ out[j].row <= out[k].row
                   /\ out[j].kind = "nl" => out[j].row < out[k].row
    /\ \A k \in 1 .. Len(out) : out[k].row \in 0 .. n_y - 1
    /\ pc = "done" =>
          \A i \in 0 .. n_y - 1 :
             Cardinality({k \in 1 .. Len(out) : out[k] = Newline(i)}) = 1

C7_Witness ==
    /\ pc = "done"
    /\ n_y >= 2 /\ n_x >= 2
    /\ Len(RunsOfRow(0)) >= 2
    /\ Len(RunsOfRow(1)) >= 1

\* every pixel of the block of cell c was added to c and to nothing else
BlockFull(c) ==
    /\ Cardinality(PixelsOf(c)) = chunks_x * chunks_y
    /\ \A p \in PixelsOf(c) : hits[p] = << c >>

AllDivided == \A c \in DOMAIN rgbs : divs[c] = 1

\* C8: whatever the order of the per-pixel additions across grid rows and
\* columns (each accumulator divided only after the additions of its own
\* block), the grid, and the output printed from it, are those of the
\* sequential row-major execution.
C8_OrderIndependent ==
    /\ Aggregated => rgbs = SeqGrid
    /\ pc = "done" => out = SeqOut

C8_Witness ==
    /\ pc = "done"
    /\ n_x * n_y >= 2
    /\ chunks_x * chunks_y >= 2
    /\ \E c \in DOMAIN rgbs : rgbs[c].r \notin {0, 255}
    /\ Len(out) >= 3

C9_State ==
    /\ \A c \in DOMAIN rgbs : divs[c] <= 1
    /\ (Aggregated \/ out # << >>) => AllDivided

C9_Step ==
    /\ pc = "start" => \A c \in DOMAIN rgbs' : rgbs'[c] = Zero /\ divs'[c] = 0
    /\ \A p \in DOMAIN img :
          hits'[p] # hits[p] =>
             \E c \in DOMAIN rgbs :
                /\ hits'[p] = Append(hits[p], c)
                /\ pc = "sum_pixel"
                /\ c \div n_x = y_chunk
                /\ p[2] = y
                /\ y \in (y_chunk * chunks_y) .. (y_chunk * chunks_y + chunks_y - 1)
                /\ divs[c] = 0
    /\ \A c \in DOMAIN rgbs :
          /\ rgbs'[c] # rgbs[c] =>
                \/ \E p \in DOMAIN img : hits'[p] = Append(hits[p], c)
                \/ divs'[c] = divs[c] + 1
          /\ divs'[c] # divs[c] =>
                /\ divs[c] = 0 /\ divs'[c] = 1
                /\ BlockFull(c)
          /\ divs[c] >= 1 => rgbs'[c] = rgbs[c]
    /\ out' # out => AllDivided

\* C9: every accumulator starts at (0,0,0); it is added to only while the pixel
\* rows of its own grid row are scanned; it is divided once, and only after
\* all chunk_height pixel rows of its block were added; once divided it never
\* changes; and nothing is printed before every accumulator is divided.
C9_Lifecycle == [][C9_Step]_vars /\ []C9_State

C9_Witness ==
    /\ pc = "done"
    /\ n_y >= 2 /\ chunks_y >= 2
    /\ AllDivided
    /\ \E c \in DOMAIN rgbs : rgbs[c] # Zero

\* C10: for every positive chunk size a usize holds, the block count that
\* sum_chunks_inplace recomputes from the u32 chunk width is the slice length
\* n_x, every write to target and every pixel read is in bounds, and the u32
\* chunk width is not zero.
C10_CastKeepsBlockCount ==
    Positive =>
        /\ pc = "sum_pixel" => /\ cw32 # 0
                               /\ sn = n_x
                               /\ idx < n_x
                               /\ x < width /\ y < height
        /\ panic \notin {"divide_by_zero", "index_out_of_bounds", "pixel_out_of_bounds"}

====
